---- MODULE Spec2Model ----
(***************************************************************************)
(* Model of src/app.py: one run of the dashboard script over an uploaded   *)
(* table.  The script is a straight pipeline; pc is the position of the    *)
(* run in it and every action is one block of consecutive statements.      *)
(*                                                                         *)
(* Representation of values                                                *)
(*   cell     a spreadsheet cell: NaN (missing), Num(n) (a number) or      *)
(*            Str(s) (text; s is the tuple of its character codes).        *)
(*   numbers  in the Time column a number counts 24ths of a day, so the    *)
(*            serial 46023.25 is Num(46023*24 + 6); everywhere else a      *)
(*            number is an integer.                                        *)
(*   time     a timestamp is the number of hours since 1899-12-30T00:00;   *)
(*            a calendar date is the number of days since 1899-12-30.      *)
(*   ratio    a quotient a/b is the pair <<a, b>>, b # 0 (floats are       *)
(*            compared as exact rationals).                                *)
(***************************************************************************)
EXTENDS Integers, Sequences, FiniteSets, TLC

VARIABLES
    pc,                 \* position of the run in the script
    outcome,            \* what the run has reported so far
    price,              \* st.sidebar.number_input "客单价"
    df_raw,             \* the four mapped columns as read from the file
    df,                 \* the working frame (rows keep their index label)
    min_d, max_d,       \* df['Date'].min(), df['Date'].max()
    sel_date,           \* value of the date_input widget
    df_period,
    filter_mode,
    available_hours, sel_hours,
    available_streamers, sel_names,
    df_step1,
    final_df,
    totals,             \* t_cost, t_gmv, t_sale, avg_roi, avg_cpa
    agg,
    sort_key_cn,
    sorted_df

vars == <<pc, outcome, price, df_raw, df, min_d, max_d, sel_date, df_period,
          filter_mode, available_hours, sel_hours, available_streamers,
          sel_names, df_step1, final_df, totals, agg, sort_key_cn, sorted_df>>

-----------------------------------------------------------------------------
(* Cells and text                                                          *)

NaN == [t |-> "nan", v |-> 0, s |-> <<>>]
Num(n) == [t |-> "num", v |-> n, s |-> <<>>]
Str(chars) == [t |-> "str", v |-> 0, s |-> chars]

None == [t |-> "none", v |-> 0]
NaT == [t |-> "NaT", v |-> 0]

SP == 32
DASH == 45
ZERO == 48
COLON == 58

IsDigit(c) == c >= ZERO /\ c <= ZERO + 9

Range(q) == {q[i] : i \in 1..Len(q)}

RECURSIVE DigitsValue(_)
DigitsValue(q) ==
    IF Len(q) = 0 THEN 0
    ELSE 10 * DigitsValue(SubSeq(q, 1, Len(q) - 1)) + (q[Len(q)] - ZERO)

AllDigits(q) == Len(q) > 0 /\ \A i \in 1..Len(q) : IsDigit(q[i])

\* Text of a decimal integer: "-" then digits.
IsIntText(q) ==
    IF Len(q) > 0 /\ q[1] = DASH THEN AllDigits(Tail(q)) ELSE AllDigits(q)

IntTextValue(q) ==
    IF q[1] = DASH THEN 0 - DigitsValue(Tail(q)) ELSE DigitsValue(q)

RECURSIVE NatDigits(_)
NatDigits(n) ==
    IF n < 10 THEN <<ZERO + n>>
    ELSE Append(NatDigits(n \div 10), ZERO + (n % 10))

\* str(n) of an integer.
IntText(n) == IF n < 0 THEN <<DASH>> \o NatDigits(0 - n) ELSE NatDigits(n)

RECURSIVE LStrip(_)
LStrip(q) == IF Len(q) > 0 /\ q[1] = SP THEN LStrip(Tail(q)) ELSE q

RECURSIVE RStrip(_)
RStrip(q) ==
    IF Len(q) > 0 /\ q[Len(q)] = SP THEN RStrip(SubSeq(q, 1, Len(q) - 1)) ELSE q

\* str.strip()
Strip(q) == RStrip(LStrip(q))

\* Python's order on str: by code point, a proper prefix first.
RECURSIVE LexLess(_, _)
LexLess(a, b) ==
    IF Len(b) = 0 THEN FALSE
    ELSE IF Len(a) = 0 THEN TRUE
    ELSE IF a[1] # b[1] THEN a[1] < b[1]
    ELSE LexLess(Tail(a), Tail(b))

-----------------------------------------------------------------------------
(* Calendar                                                                *)

HoursPerDay == 24
EpochToUnix == 25569
MinSerialDay == 0 - 693593
MaxSerialDay == 2958465
MinNanoHour == (0 - 81183) * 24 + 1
MaxNanoHour == 132320 * 24 + 23
MinYear == 2020

\* days since 1899-12-30 of the proleptic Gregorian date y-m-d
DaysFromCivil(y, m, d) ==
    LET yy == IF m <= 2 THEN y - 1 ELSE y
        era == yy \div 400
        yoe == yy - era * 400
        mp == IF m > 2 THEN m - 3 ELSE m + 9
        doy == (153 * mp + 2) \div 5 + d - 1
        doe == yoe * 365 + yoe \div 4 - yoe \div 100 + doy
    IN  era * 146097 + doe - 719468 + EpochToUnix

\* <<year, month, day>> of the date `day` days after 1899-12-30
CivilFromDays(day) ==
    LET z == day - EpochToUnix + 719468
        era == z \div 146097
        doe == z - era * 146097
        yoe == (doe - doe \div 1460 + doe \div 36524 - doe \div 146096) \div 365
        doy == doe - (365 * yoe + yoe \div 4 - yoe \div 100)
        mp == (5 * doy + 2) \div 153
        d == doy - (153 * mp + 2) \div 5 + 1
        m == IF mp < 10 THEN mp + 3 ELSE mp - 9
        y == yoe + era * 400 + (IF m <= 2 THEN 1 ELSE 0)
    IN  <<y, m, d>>

YearOf(ts) == CivilFromDays(ts \div HoursPerDay)[1]
DateOf(ts) == ts \div HoursPerDay
HourOf(ts) == ts % HoursPerDay

-----------------------------------------------------------------------------
(* Timestamp normalisation (parse_date and the coercion after it)          *)

Ts(n) == [t |-> "ts", v |-> n]

\* float(x): the number read from x, in 24ths of a day, or None when float
\* raises.  A missing cell is the float nan, which float() returns as is.
FloatOf(x) ==
    CASE x.t = "num" -> [t |-> "float", v |-> x.v]
      [] x.t = "nan" -> [t |-> "floatnan", v |-> 0]
      [] x.t = "str" ->
            IF IsIntText(Strip(x.s))
            THEN [t |-> "float", v |-> IntTextValue(Strip(x.s)) * HoursPerDay]
            ELSE None

\* datetime(1899, 12, 30) + timedelta(days=f) is defined on the range of
\* datetime (years 1..9999) and raises otherwise; timedelta(days=nan) raises.
SerialInRange(f) ==
    /\ f.t = "float"
    /\ f.v >= MinSerialDay * HoursPerDay
    /\ f.v < (MaxSerialDay + 1) * HoursPerDay

\* "YYYYMMDD" or "YYYY-MM-DD" as a date at midnight; other text of the model
\* is not a date.
IsCivil(y, m, d) ==
    /\ y >= 1 /\ m >= 1 /\ m <= 12 /\ d >= 1
    /\ CivilFromDays(DaysFromCivil(y, m, d)) = <<y, m, d>>

ParseDateText(q) ==
    LET compact == Len(q) = 8 /\ AllDigits(q)
        dashed == /\ Len(q) = 10 /\ q[5] = DASH /\ q[8] = DASH
                  /\ AllDigits(SubSeq(q, 1, 4)) /\ AllDigits(SubSeq(q, 6, 7))
                  /\ AllDigits(SubSeq(q, 9, 10))
        y == DigitsValue(SubSeq(q, 1, 4))
        m == IF compact THEN DigitsValue(SubSeq(q, 5, 6)) ELSE DigitsValue(SubSeq(q, 6, 7))
        d == IF compact THEN DigitsValue(SubSeq(q, 7, 8)) ELSE DigitsValue(SubSeq(q, 9, 10))
    IN  IF (compact \/ dashed) /\ IsCivil(y, m, d)
        THEN Ts(DaysFromCivil(y, m, d) * HoursPerDay)
        ELSE NaT

\* pd.to_datetime(x, errors='coerce') of one cell: a number counts
\* nanoseconds since 1970-01-01 (every number of the model is less than an
\* hour of them), text is parsed as a date, missing is NaT.
ToDatetimeCoerce(x) ==
    CASE x.t = "nan" -> NaT
      [] x.t = "num" ->
            Ts(EpochToUnix * HoursPerDay + (IF x.v < 0 THEN 0 - 1 ELSE 0))
      [] x.t = "str" -> ParseDateText(Strip(x.s))

\* the same with the epoch 1900-01-01 instead of 1899-12-30
parse_date_epoch1900(x) ==
    LET f == FloatOf(x)
    IN  IF f # None /\ SerialInRange(f) THEN Ts(f.v + 2 * HoursPerDay)
        ELSE ToDatetimeCoerce(x)

parse_date(x) ==
    LET f == FloatOf(x)
    IN  IF f # None /\ SerialInRange(f) THEN Ts(f.v) ELSE ToDatetimeCoerce(x)

\* pd.to_datetime(column, errors='coerce'): a datetime outside the
\* nanosecond range of a Timestamp becomes NaT.
CoerceColumn(ts) ==
    IF ts.t = "ts" /\ ts.v >= MinNanoHour /\ ts.v <= MaxNanoHour THEN ts ELSE NaT

StdTimeOf(x) == CoerceColumn(parse_date(x))

\* dropna(subset=['StdTime']) and dt.year > 2020
ValidDate(r) == r.StdTime.t = "ts" /\ YearOf(r.StdTime.v) > MinYear

-----------------------------------------------------------------------------
(* Frames                                                                  *)

\* pd.to_numeric(cell, errors='coerce') then fillna(0)
ToNumericFill0(x) ==
    CASE x.t = "num" -> x.v
      [] x.t = "nan" -> 0
      [] x.t = "str" -> IF IsIntText(x.s) THEN IntTextValue(x.s) ELSE 0

\* str(hour) + ":00"
HourLabel(ts) == NatDigits(HourOf(ts)) \o <<COLON, ZERO, ZERO>>

Ratio(a, b) == <<a, b>>
RZero == <<0, 1>>

\* Name.astype(str)
AsStr(x) ==
    CASE x.t = "str" -> x.s
      [] x.t = "num" -> IntText(x.v)
      [] x.t = "nan" -> <<110, 97, 110>>

WithStdTime(r) ==
    [idx |-> r.idx, Time |-> r.Time, Name |-> r.Name, Cost |-> r.Cost,
     Sales |-> r.Sales, StdTime |-> StdTimeOf(r.Time)]

\* lines 101-109: the derived columns of one row
Derived(r, p) ==
    LET cost == ToNumericFill0(r.Cost)
        sales == ToNumericFill0(r.Sales)
        gmv == sales * p
    IN  [idx |-> r.idx, Time |-> r.Time, Name |-> r.Name, StdTime |-> r.StdTime,
         Date |-> DateOf(r.StdTime.v), Hour |-> HourLabel(r.StdTime.v),
         Cost |-> cost, Sales |-> sales, GMV |-> gmv,
         ROI |-> IF cost > 0 THEN Ratio(gmv, cost) ELSE RZero,
         CPA |-> IF sales > 0 THEN Ratio(cost, sales) ELSE RZero]

\* lines 111-113
NameKept(r) == r.Name.t # "nan" /\ Strip(AsStr(r.Name)) # <<>>
CostKeptNonNegative(r) == r.Cost >= 0
CostKept(r) == r.Cost > 0
KeepRow(r) == NameKept(r) /\ CostKept(r)

-----------------------------------------------------------------------------
(* Dependent filter: choice lists and masks                                *)

Col(frame, c) == [i \in 1..Len(frame) |-> frame[i][c]]

\* Series.unique(): the distinct values in order of first appearance
RECURSIVE Unique(_)
Unique(q) ==
    IF Len(q) = 0 THEN <<>>
    ELSE LET front == Unique(SubSeq(q, 1, Len(q) - 1))
         IN  IF q[Len(q)] \in Range(front) THEN front ELSE Append(front, q[Len(q)])

\* int(x.split(':')[0])
HourKey(label) ==
    LET k == CHOOSE i \in 1..Len(label) :
                 label[i] = COLON /\ \A j \in 1..(i - 1) : label[j] # COLON
    IN  DigitsValue(SubSeq(label, 1, k - 1))

\* sorted(): a stable insertion of x into the sorted list q
RECURSIVE InsertHour(_, _)
InsertHour(x, q) ==
    IF Len(q) = 0 THEN <<x>>
    ELSE IF HourKey(x) < HourKey(q[1]) THEN <<x>> \o q
    ELSE <<q[1]>> \o InsertHour(x, Tail(q))

RECURSIVE SortHours(_)
SortHours(q) ==
    IF Len(q) = 0 THEN <<>>
    ELSE InsertHour(q[Len(q)], SortHours(SubSeq(q, 1, Len(q) - 1)))

RECURSIVE InsertName(_, _)
InsertName(x, q) ==
    IF Len(q) = 0 THEN <<x>>
    ELSE IF LexLess(x, q[1]) THEN <<x>> \o q
    ELSE <<q[1]>> \o InsertName(x, Tail(q))

RECURSIVE SortNames(_)
SortNames(q) ==
    IF Len(q) = 0 THEN <<>>
    ELSE InsertName(q[Len(q)], SortNames(SubSeq(q, 1, Len(q) - 1)))

\* sorted(frame['Hour'].unique(), key=lambda x: int(x.split(':')[0]))
AvailableHours(frame) == SortHours(Unique(Col(frame, "Hour")))

\* sorted(frame['Name'].unique().astype(str))
AvailableStreamers(frame) ==
    LET u == Unique(Col(frame, "Name"))
    IN  SortNames([i \in 1..Len(u) |-> AsStr(u[i])])

\* frame['Hour'].isin(sel)
HourIsIn(r, sel) == r.Hour \in sel

\* frame['Name'].isin(sel): sel holds str values, and a cell that is not a
\* str equals none of them
NameIsIn(r, sel) == r.Name.t = "str" /\ r.Name.s \in sel

\* (df['Date'] >= sel_date[0]) & (df['Date'] <= sel_date[1])
InDateRange(r, sel) == r.Date >= sel[1] /\ r.Date <= sel[2]

\* line 135-136: df[mask_date]
ByDates(frame, sel) == SelectSeq(frame, LAMBDA r : InDateRange(r, sel))

\* `if not sel_hours:` (line 165), `if not sel_names:` (line 205)
SelectionMissingAsNever(sel) == FALSE
SelectionMissing(sel) == sel = {}

\* line 170: df_period[df_period['Hour'].isin(sel_hours)]
Step1TimeFirstInverted(period, hours) ==
    SelectSeq(period, LAMBDA r : ~HourIsIn(r, hours))
Step1TimeFirst(period, hours) == SelectSeq(period, LAMBDA r : HourIsIn(r, hours))

\* line 188: df_step1[df_step1['Name'].isin(sel_names)]
FinalTimeFirst(step1, names) == SelectSeq(step1, LAMBDA r : NameIsIn(r, names))

\* line 210: df_period[df_period['Name'].isin(sel_names)]
Step1PerformerFirst(period, names) == SelectSeq(period, LAMBDA r : NameIsIn(r, names))

\* line 228: df_step1[df_step1['Hour'].isin(sel_hours)]
FinalPerformerFirstUnfiltered(step1, hours) == step1
FinalPerformerFirst(step1, hours) == SelectSeq(step1, LAMBDA r : HourIsIn(r, hours))

\* pd.Series([True]*len(df)) is indexed 0..len(df)-1; df[mask] reindexes it
\* to df's index and raises when a label of df is missing from it
MaskAligned(frame) == \A i \in 1..Len(frame) : frame[i].idx < Len(frame)

SeqMin(q) == CHOOSE x \in Range(q) : \A y \in Range(q) : x <= y
SeqMax(q) == CHOOSE x \in Range(q) : \A y \in Range(q) : x >= y

-----------------------------------------------------------------------------
(* Aggregation and ranking                                                 *)

RECURSIVE Sum(_)
Sum(q) == IF Len(q) = 0 THEN 0 ELSE q[1] + Sum(Tail(q))

\* order of the group keys (groupby sorts them): numbers before text
KeyLess(a, b) ==
    IF a.t = "num" /\ b.t = "num" THEN a.v < b.v
    ELSE IF a.t = "num" THEN TRUE
    ELSE IF b.t = "num" THEN FALSE
    ELSE LexLess(a.s, b.s)

RECURSIVE InsertKey(_, _)
InsertKey(x, q) ==
    IF Len(q) = 0 THEN <<x>>
    ELSE IF KeyLess(x, q[1]) THEN <<x>> \o q
    ELSE <<q[1]>> \o InsertKey(x, Tail(q))

RECURSIVE SortKeys(_)
SortKeys(q) ==
    IF Len(q) = 0 THEN <<>>
    ELSE InsertKey(q[Len(q)], SortKeys(SubSeq(q, 1, Len(q) - 1)))

GroupKeys(frame) == SortKeys(Unique(Col(frame, "Name")))

\* x/y if y else 0
RatioIfTruthy(x, y) == IF y # 0 THEN Ratio(x, y) ELSE RZero

GroupRow(frame, key) ==
    LET g == SelectSeq(frame, LAMBDA r : r.Name = key)
        cost == Sum(Col(g, "Cost"))
        gmv == Sum(Col(g, "GMV"))
        sales == Sum(Col(g, "Sales"))
    IN  [Name |-> key, Cost |-> cost, GMV |-> gmv, Sales |-> sales,
         StdTime |-> Len(g),
         ROI |-> RatioIfTruthy(gmv, cost), CPA |-> RatioIfTruthy(cost, sales)]

\* final_df.groupby('Name').agg(...).reset_index() with the ROI, CPA columns
Aggregate(frame) ==
    LET keys == GroupKeys(frame)
    IN  [i \in 1..Len(keys) |-> GroupRow(frame, keys[i])]

Headline(frame) ==
    LET t_cost == Sum(Col(frame, "Cost"))
        t_gmv == Sum(Col(frame, "GMV"))
        t_sale == Sum(Col(frame, "Sales"))
    IN  [t_cost |-> t_cost, t_gmv |-> t_gmv, t_sale |-> t_sale,
         avg_roi |-> RatioIfTruthy(t_gmv, t_cost),
         avg_cpa |-> RatioIfTruthy(t_cost, t_sale)]

SortKeysCn == {"ROI", "GMV", "Sales", "Cost", "CPA"}

\* the value of a summary row in the sort column, as a ratio
Metric(row, key) ==
    IF key \in {"ROI", "CPA"} THEN row[key] ELSE Ratio(row[key], 1)

RLess(a, b) ==
    LET sa == IF a[2] < 0 THEN 0 - 1 ELSE 1
        sb == IF b[2] < 0 THEN 0 - 1 ELSE 1
    IN  a[1] * sa * b[2] * sb < b[1] * sb * a[2] * sa

REq(a, b) == ~RLess(a, b) /\ ~RLess(b, a)

\* ascending_order = True if sort_key_cn == '单台成本(元)' else False
AscendingOrder(key) == key = "CPA"

Ordered(q, key, asc) ==
    \A i, j \in 1..Len(q) :
        i < j => IF asc THEN ~RLess(Metric(q[j], key), Metric(q[i], key))
                 ELSE ~RLess(Metric(q[i], key), Metric(q[j], key))

\* display_df.sort_values(key, ascending=asc): kind defaults to 'quicksort',
\* which is not stable, so rows with equal values may come out in any order
SortValues(frame, key, asc) ==
    {q \in {[i \in 1..Len(frame) |-> frame[f[i]]] : f \in Permutations(1..Len(frame))} :
        Ordered(q, key, asc)}

-----------------------------------------------------------------------------
(* Input tables                                                            *)

MaxRows == 2

Serial(day, hour) == day * HoursPerDay + hour

TxtA == <<65>>
TxtASpace == <<65, 32>>
TxtB == <<66>>
TxtBlank == <<32>>
TxtABC == <<97, 98, 99>>
Txt100 == <<49, 48, 48>>
Txt46023 == <<52, 54, 48, 50, 51>>
Txt20260101 == <<50, 48, 50, 54, 48, 49, 48, 49>>
TxtDate0102 == <<50, 48, 50, 54, 45, 48, 49, 45, 48, 50>>

RawRow(time, name, cost, sales) ==
    [Time |-> time, Name |-> name, Cost |-> cost, Sales |-> sales]

\* Rows of the multi-row tables: 2026-01-01 and 2026-01-03, three performers
\* (one written with a trailing blank), a numeric performer cell, a tie in
\* ROI, a dropped spend, a negative sales count and an unparseable time.
SampleRows ==
    { RawRow(Num(Serial(46023, 6)), Str(TxtA), Num(100), Num(2)),
      RawRow(Num(Serial(46023, 10)), Str(TxtASpace), Num(100), Num(2)),
      RawRow(Num(Serial(46023, 10)), Str(TxtA), Num(50), Num(1)),
      RawRow(Num(Serial(46025, 14)), Str(TxtB), Num(200), Num(3)),
      RawRow(Num(Serial(46023, 10)), Str(TxtB), Num(50), Num(0 - 1)),
      RawRow(Num(Serial(46025, 6)), Num(7), Num(100), Num(2)),
      RawRow(Num(Serial(46023, 10)), Str(TxtA), Num(0), Num(2)),
      RawRow(Str(TxtABC), Str(TxtB), Num(100), Num(2)) }

TimeCells ==
    { Num(Serial(46023, 6)), Num(Serial(46025, 14)),
      Num(Serial(44196, 23)), Num(Serial(44197, 0)),
      Num(Serial(3000000, 0)),
      Str(Txt46023), Str(Txt20260101), Str(TxtDate0102), Str(TxtABC), NaN }

NameCells == { Str(TxtA), Str(TxtASpace), Str(TxtBlank), Str(<<>>), Num(7), NaN }

CostCells == { Num(100), Num(0), Num(0 - 5), Str(Txt100), Str(TxtABC), NaN }

SalesCells == { Num(2), Num(0), Num(0 - 1), Str(TxtABC) }

\* One-row tables over every combination of cell kinds.
CellRows ==
    { RawRow(a, b, c, d) : a \in TimeCells, b \in NameCells,
                           c \in CostCells, d \in SalesCells }

SeqsUpTo(S, n) == UNION {[1..k -> S] : k \in 0..n}

Tables == SeqsUpTo(SampleRows, MaxRows) \cup {<<r>> : r \in CellRows}

PriceChoices == {50, 3299}

-----------------------------------------------------------------------------
(* The run                                                                 *)

NoTotals == [t_cost |-> 0, t_gmv |-> 0, t_sale |-> 0,
             avg_roi |-> RZero, avg_cpa |-> RZero]

TimeFirst == "TimeThenPerformer"
PerformerFirst == "PerformerThenTime"

\* lines 41-82: the file is read, the four columns are mapped and copied
Init ==
    /\ df_raw \in Tables
    /\ price \in PriceChoices
    /\ df = [i \in 1..Len(df_raw) |->
                [idx |-> i - 1, Time |-> df_raw[i].Time, Name |-> df_raw[i].Name,
                 Cost |-> df_raw[i].Cost, Sales |-> df_raw[i].Sales]]
    /\ pc = "parse"
    /\ outcome = "running"
    /\ min_d = 0 /\ max_d = 0
    /\ sel_date = <<>>
    /\ df_period = <<>>
    /\ filter_mode = ""
    /\ available_hours = <<>> /\ sel_hours = {}
    /\ available_streamers = <<>> /\ sel_names = {}
    /\ df_step1 = <<>>
    /\ final_df = <<>>
    /\ totals = NoTotals
    /\ agg = <<>>
    /\ sort_key_cn = ""
    /\ sorted_df = <<>>

Stop(result) == pc' = "stopped" /\ outcome' = result

\* lines 84-91
ParseDates ==
    /\ pc = "parse"
    /\ df' = [i \in 1..Len(df) |-> WithStdTime(df[i])]
    /\ pc' = "dropna"
    /\ UNCHANGED <<outcome, price, df_raw, min_d, max_d, sel_date, df_period,
                   filter_mode, available_hours, sel_hours, available_streamers,
                   sel_names, df_step1, final_df, totals, agg, sort_key_cn, sorted_df>>

\* lines 94-99
DropInvalidDates ==
    /\ pc = "dropna"
    /\ df' = SelectSeq(df, ValidDate)
    /\ IF df' = <<>> THEN Stop("EmptyData")
       ELSE pc' = "derive" /\ UNCHANGED outcome
    /\ UNCHANGED <<price, df_raw, min_d, max_d, sel_date, df_period,
                   filter_mode, available_hours, sel_hours, available_streamers,
                   sel_names, df_step1, final_df, totals, agg, sort_key_cn, sorted_df>>

\* lines 101-109
DeriveColumns ==
    /\ pc = "derive"
    /\ df' = [i \in 1..Len(df) |-> Derived(df[i], price)]
    /\ pc' = "filter"
    /\ UNCHANGED <<outcome, price, df_raw, min_d, max_d, sel_date, df_period,
                   filter_mode, available_hours, sel_hours, available_streamers,
                   sel_names, df_step1, final_df, totals, agg, sort_key_cn, sorted_df>>

\* lines 111-113
FilterRows ==
    /\ pc = "filter"
    /\ df' = SelectSeq(df, KeepRow)
    /\ pc' = "bounds"
    /\ UNCHANGED <<outcome, price, df_raw, min_d, max_d, sel_date, df_period,
                   filter_mode, available_hours, sel_hours, available_streamers,
                   sel_names, df_step1, final_df, totals, agg, sort_key_cn, sorted_df>>

\* lines 120-122: min() and max() of an empty column are nan, and comparing
\* nan with a date raises TypeError, which line 342 catches
DateBounds ==
    /\ pc = "bounds"
    /\ IF df = <<>>
       THEN Stop("ProgramError") /\ UNCHANGED <<min_d, max_d>>
       ELSE /\ min_d' = SeqMin(Col(df, "Date"))
            /\ max_d' = SeqMax(Col(df, "Date"))
            /\ pc' = "date"
            /\ UNCHANGED outcome
    /\ UNCHANGED <<price, df_raw, df, sel_date, df_period,
                   filter_mode, available_hours, sel_hours, available_streamers,
                   sel_names, df_step1, final_df, totals, agg, sort_key_cn, sorted_df>>

\* what st.date_input can return: a complete range within [lo, hi], or the
\* tuple of an unfinished selection
DateInputs(lo, hi) ==
    {<<a, b>> : a \in lo..hi, b \in lo..hi} \cup {<<a>> : a \in lo..hi} \cup {<<>>}

\* lines 124-140
SelectDate ==
    /\ pc = "date"
    /\ \E sel \in DateInputs(min_d, max_d) :
        /\ Len(sel) = 2 => sel[1] <= sel[2]
        /\ sel_date' = sel
        /\ IF Len(sel) # 2 /\ ~MaskAligned(df)
           THEN Stop("ProgramError") /\ UNCHANGED df_period
           ELSE /\ df_period' = IF Len(sel) = 2 THEN ByDates(df, sel) ELSE df
                /\ IF df_period' = <<>> THEN Stop("NoDataInPeriod")
                   ELSE pc' = "mode" /\ UNCHANGED outcome
    /\ UNCHANGED <<price, df_raw, df, min_d, max_d,
                   filter_mode, available_hours, sel_hours, available_streamers,
                   sel_names, df_step1, final_df, totals, agg, sort_key_cn, sorted_df>>

\* lines 152-178, filter_mode "按时间找人 (默认)"
TimeFirstHours ==
    /\ pc = "mode"
    /\ filter_mode' = TimeFirst
    /\ available_hours' = AvailableHours(df_period)
    /\ \E sel \in SUBSET Range(available_hours') :
        /\ sel_hours' = sel
        /\ IF SelectionMissing(sel)
           THEN Stop("SelectionRequired") /\ UNCHANGED <<df_step1, available_streamers>>
           ELSE /\ df_step1' = Step1TimeFirst(df_period, sel)
                /\ IF df_step1' = <<>>
                   THEN Stop("NoDataForSelection") /\ UNCHANGED available_streamers
                   ELSE /\ available_streamers' = AvailableStreamers(df_step1')
                        /\ pc' = "names"
                        /\ UNCHANGED outcome
    /\ UNCHANGED <<price, df_raw, df, min_d, max_d, sel_date, df_period,
                   sel_names, final_df, totals, agg, sort_key_cn, sorted_df>>

\* lines 180-188
TimeFirstNames ==
    /\ pc = "names"
    /\ \E sel \in SUBSET Range(available_streamers) :
        /\ sel_names' = sel
        /\ final_df' = FinalTimeFirst(df_step1, sel)
    /\ pc' = "show"
    /\ UNCHANGED <<outcome, price, df_raw, df, min_d, max_d, sel_date, df_period,
                   filter_mode, available_hours, sel_hours, available_streamers,
                   df_step1, totals, agg, sort_key_cn, sorted_df>>

\* lines 190-218, filter_mode "按人找时间"
PerformerFirstNames ==
    /\ pc = "mode"
    /\ filter_mode' = PerformerFirst
    /\ available_streamers' = AvailableStreamers(df_period)
    /\ \E sel \in SUBSET Range(available_streamers') :
        /\ sel_names' = sel
        /\ IF SelectionMissing(sel)
           THEN Stop("SelectionRequired") /\ UNCHANGED <<df_step1, available_hours>>
           ELSE /\ df_step1' = Step1PerformerFirst(df_period, sel)
                /\ IF df_step1' = <<>>
                   THEN Stop("NoDataForSelection") /\ UNCHANGED available_hours
                   ELSE /\ available_hours' = AvailableHours(df_step1')
                        /\ pc' = "hours"
                        /\ UNCHANGED outcome
    /\ UNCHANGED <<price, df_raw, df, min_d, max_d, sel_date, df_period,
                   sel_hours, final_df, totals, agg, sort_key_cn, sorted_df>>

\* lines 220-228
PerformerFirstHours ==
    /\ pc = "hours"
    /\ \E sel \in SUBSET Range(available_hours) :
        /\ sel_hours' = sel
        /\ final_df' = FinalPerformerFirst(df_step1, sel)
    /\ pc' = "show"
    /\ UNCHANGED <<outcome, price, df_raw, df, min_d, max_d, sel_date, df_period,
                   filter_mode, available_hours, available_streamers, sel_names,
                   df_step1, totals, agg, sort_key_cn, sorted_df>>

\* lines 231-257 and 339-340
Summarise ==
    /\ pc = "show"
    /\ IF final_df = <<>>
       THEN Stop("EmptyResult") /\ UNCHANGED <<totals, agg>>
       ELSE /\ totals' = Headline(final_df)
            /\ agg' = Aggregate(final_df)
            /\ pc' = "rank"
            /\ UNCHANGED outcome
    /\ UNCHANGED <<price, df_raw, df, min_d, max_d, sel_date, df_period,
                   filter_mode, available_hours, sel_hours, available_streamers,
                   sel_names, df_step1, final_df, sort_key_cn, sorted_df>>

\* lines 279-304
Rank ==
    /\ pc = "rank"
    /\ \E key \in SortKeysCn :
        /\ sort_key_cn' = key
        /\ sorted_df' \in SortValues(agg, key, AscendingOrder(key))
    /\ pc' = "done"
    /\ outcome' = "Shown"
    /\ UNCHANGED <<price, df_raw, df, min_d, max_d, sel_date, df_period,
                   filter_mode, available_hours, sel_hours, available_streamers,
                   sel_names, df_step1, final_df, totals, agg>>

Next ==
    \/ ParseDates
    \/ DropInvalidDates
    \/ DeriveColumns
    \/ FilterRows
    \/ DateBounds
    \/ SelectDate
    \/ TimeFirstHours
    \/ TimeFirstNames
    \/ PerformerFirstNames
    \/ PerformerFirstHours
    \/ Summarise
    \/ Rank

Spec == Init /\ [][Next]_vars

-----------------------------------------------------------------------------
(* Stages                                                                  *)

\* lines 111-113 have run
Sanitized ==
    \/ pc \in {"bounds", "date", "mode", "names", "hours", "show", "rank", "done"}
    \/ pc = "stopped" /\ outcome # "EmptyData"

\* both selections have been made and final_df is computed
Filtered ==
    \/ pc \in {"show", "rank", "done"}
    \/ pc = "stopped" /\ outcome = "EmptyResult"

Frames == {df, df_period, df_step1, final_df}

Lbl6 == <<54, 58, 48, 48>>
Lbl10 == <<49, 48, 58, 48, 48>>
Lbl14 == <<49, 52, 58, 48, 48>>

-----------------------------------------------------------------------------
(* C1: dependent filtering is monotone.  In TimeThenPerformer mode the     *)
(* legal performers are performers of the period, and a smaller hour       *)
(* selection never yields more legal performers than a larger one; the     *)
(* same holds for the legal hours in PerformerThenTime mode.               *)

LegalPerformers(hours) == Range(AvailableStreamers(Step1TimeFirst(df_period, hours)))
LegalHours(names) == Range(AvailableHours(Step1PerformerFirst(df_period, names)))

\* C1: the legal set of the second dimension is drawn from the period and
\* grows and shrinks with the priority selection, in both modes.
C1_DependentMonotone ==
    /\ (filter_mode = TimeFirst /\ available_streamers # <<>>) =>
          /\ Range(available_streamers) = LegalPerformers(sel_hours)
          /\ Range(available_streamers) \subseteq
                 {AsStr(df_period[i].Name) : i \in 1..Len(df_period)}
          /\ \A H \in SUBSET Range(available_hours) :
                /\ (H # {} /\ H \subseteq sel_hours) =>
                       LegalPerformers(H) \subseteq Range(available_streamers)
                /\ sel_hours \subseteq H =>
                       Range(available_streamers) \subseteq LegalPerformers(H)
    /\ (filter_mode = PerformerFirst /\ available_hours # <<>>) =>
          /\ Range(available_hours) = LegalHours(sel_names)
          /\ Range(available_hours) \subseteq
                 {df_period[i].Hour : i \in 1..Len(df_period)}
          /\ \A P \in SUBSET Range(available_streamers) :
                /\ (P # {} /\ P \subseteq sel_names) =>
                       LegalHours(P) \subseteq Range(available_hours)
                /\ sel_names \subseteq P =>
                       Range(available_hours) \subseteq LegalHours(P)

\* A streams only at 10:00 and B only at 14:00; with 10:00 selected the
\* legal performers are A alone.
C1_Witness ==
    /\ filter_mode = TimeFirst
    /\ pc = "names"
    /\ Range(available_hours) = {Lbl10, Lbl14}
    /\ {AsStr(df_period[i].Name) : i \in 1..Len(df_period)} = {TxtA, TxtB}
    /\ sel_hours = {Lbl10}
    /\ available_streamers = <<TxtA>>

-----------------------------------------------------------------------------
(* C2: with a complete date range and a non-empty priority selection, the  *)
(* filtered output is exactly the clean records whose date is in           *)
(* [start, end], whose hour bucket is selected and whose performer is      *)
(* selected.                                                               *)

\* C2: final_df is exactly the clean rows in the date range, the selected
\* hours and the selected performers.
C2_ExactFilter ==
    (Filtered /\ Len(sel_date) = 2) =>
        final_df = SelectSeq(df, LAMBDA r :
                       /\ r.Date >= sel_date[1] /\ r.Date <= sel_date[2]
                       /\ r.Hour \in sel_hours
                       /\ AsStr(r.Name) \in sel_names)

-----------------------------------------------------------------------------
(* C3: an empty selection in the priority dimension ends the run in        *)
(* "selection required": no step-1 frame, no legal set for the second      *)
(* dimension, no filtered rows, no summary.                                *)

NothingAfterPriority ==
    /\ pc = "stopped" /\ outcome = "SelectionRequired"
    /\ df_step1 = <<>> /\ final_df = <<>>
    /\ totals = NoTotals /\ agg = <<>> /\ sorted_df = <<>>

\* C3: an empty priority selection stops the run with "selection required"
\* and nothing downstream is computed.
C3_SelectionRequired ==
    /\ (filter_mode = TimeFirst /\ sel_hours = {}) =>
          NothingAfterPriority /\ available_streamers = <<>> /\ sel_names = {}
    /\ (filter_mode = PerformerFirst /\ sel_names = {}) =>
          NothingAfterPriority /\ available_hours = <<>> /\ sel_hours = {}
    /\ outcome = "SelectionRequired" =>
          \/ filter_mode = TimeFirst /\ sel_hours = {}
          \/ filter_mode = PerformerFirst /\ sel_names = {}

C3_Witness ==
    /\ outcome = "SelectionRequired"
    /\ filter_mode = PerformerFirst
    /\ Len(available_streamers) >= 2
    /\ sel_names = {}

-----------------------------------------------------------------------------
(* C4: when sanitisation leaves no row the run ends in the empty-dataset   *)
(* condition: it does not go on to the date filter and does not end in the *)
(* generic program error.                                                  *)

\* C4: a run that stops with no clean row reports the empty-dataset
\* condition, and no run with no clean row reaches the date filter.
C4_EmptyDatasetNamed ==
    /\ (pc = "stopped" /\ df = <<>>) => outcome = "EmptyData"
    /\ df = <<>> => pc \notin {"date", "mode", "names", "hours", "show", "rank", "done"}

-----------------------------------------------------------------------------
(* C5: a raw row whose spend cell coerces to a number <= 0 (text and       *)
(* missing cells coerce to 0) is absent from the sanitised frame, so every *)
(* row of every later frame has spend > 0.                                 *)

NumericCell(c) == c.t = "num" \/ (c.t = "str" /\ IsIntText(c.s))
SpendOfCell(c) ==
    IF ~NumericCell(c) THEN 0 ELSE IF c.t = "num" THEN c.v ELSE IntTextValue(c.s)

\* C5: rows whose spend coerces to <= 0 are dropped; every later row has
\* spend > 0.
C5_SpendPositive ==
    Sanitized =>
        /\ \A F \in Frames : \A i \in 1..Len(F) : F[i].Cost > 0
        /\ \A i \in 1..Len(df) : df[i].Cost = SpendOfCell(df_raw[df[i].idx + 1].Cost)
        /\ \A k \in 1..Len(df_raw) :
              SpendOfCell(df_raw[k].Cost) <= 0 =>
                  \A i \in 1..Len(df) : df[i].idx # k - 1

C5_Witness ==
    /\ pc = "bounds"
    /\ Len(df) = 1
    /\ \E k \in 1..Len(df_raw) :
          /\ df_raw[k].Time = Num(Serial(46023, 10))
          /\ df_raw[k].Name = Str(TxtA)
          /\ SpendOfCell(df_raw[k].Cost) = 0

-----------------------------------------------------------------------------
(* C6: every clean record's performer id is a non-empty trimmed string,    *)
(* so cells that differ only in surrounding blanks are one performer.      *)

\* C6: every clean performer id is non-empty and trimmed, and no two
\* summaries differ only in surrounding blanks.
C6_PerformerTrimmed ==
    /\ Sanitized =>
          \A i \in 1..Len(df) :
              LET id == AsStr(df[i].Name)
              IN  id # <<>> /\ Strip(id) = id
    /\ pc \in {"rank", "done"} =>
          \A i, j \in 1..Len(agg) :
              Strip(AsStr(agg[i].Name)) = Strip(AsStr(agg[j].Name)) => i = j

-----------------------------------------------------------------------------
(* C7: each summary holds the sums and the count of its performer's        *)
(* filtered rows; roi is revenue/spend if spend > 0 else 0, cost per sale  *)
(* is spend/sales if sales > 0 else 0, both from the totals; the headline  *)
(* ratios are formed the same way from the totals of all filtered rows.    *)

RoiOf(revenue, spend) == IF spend > 0 THEN Ratio(revenue, spend) ELSE RZero
CostPerSaleOf(spend, sales) == IF sales > 0 THEN Ratio(spend, sales) ELSE RZero

\* C7: summaries and headline hold the sums of their rows, and the ratios
\* are formed from those sums with the guards "> 0".
C7_SummaryFromTotals ==
    pc \in {"rank", "done"} =>
        /\ {agg[i].Name : i \in 1..Len(agg)} = {final_df[i].Name : i \in 1..Len(final_df)}
        /\ \A i \in 1..Len(agg) :
              LET g == SelectSeq(final_df, LAMBDA r : r.Name = agg[i].Name)
                  spend == Sum(Col(g, "Cost"))
                  sales == Sum(Col(g, "Sales"))
                  revenue == Sum(Col(g, "GMV"))
              IN  /\ agg[i].Cost = spend /\ agg[i].Sales = sales
                  /\ agg[i].GMV = revenue /\ agg[i].StdTime = Len(g)
                  /\ REq(agg[i].ROI, RoiOf(revenue, spend))
                  /\ REq(agg[i].CPA, CostPerSaleOf(spend, sales))
        /\ LET spend == Sum(Col(final_df, "Cost"))
               sales == Sum(Col(final_df, "Sales"))
               revenue == Sum(Col(final_df, "GMV"))
           IN  /\ totals.t_cost = spend /\ totals.t_sale = sales /\ totals.t_gmv = revenue
               /\ REq(totals.avg_roi, RoiOf(revenue, spend))
               /\ REq(totals.avg_cpa, CostPerSaleOf(spend, sales))

-----------------------------------------------------------------------------
(* C8: the ranking is descending in the chosen metric, ascending for cost  *)
(* per sale, and summaries with equal values keep the order they have in   *)
(* the aggregation.                                                        *)

PosInAgg(row) == CHOOSE i \in 1..Len(agg) : agg[i].Name = row.Name

\* C8: the ranking is ordered in the stated direction and ties keep their
\* aggregation order.
C8_StableRanking ==
    pc = "done" =>
        /\ Ordered(sorted_df, sort_key_cn, sort_key_cn = "CPA")
        /\ \A i, j \in 1..Len(sorted_df) :
              (i < j /\ REq(Metric(sorted_df[i], sort_key_cn),
                            Metric(sorted_df[j], sort_key_cn))) =>
                  PosInAgg(sorted_df[i]) < PosInAgg(sorted_df[j])

-----------------------------------------------------------------------------
(* C9 as written: every time value that parses as a number s is            *)
(* normalised to 1899-12-30 plus s days.                                   *)

\* C9 (as written): a numeric time value s always becomes 1899-12-30 + s days.
C9_EveryNumberIsSerial ==
    pc = "dropna" =>
        \A i \in 1..Len(df) :
            LET f == FloatOf(df[i].Time)
            IN  f.t = "float" => df[i].StdTime = Ts(f.v)

(* C9 amended: a time value that parses as a number s with 1899-12-30 + s  *)
(* days inside the range of a nanosecond timestamp is normalised to        *)
(* exactly that instant, and the row's date and hour bucket are its        *)
(* calendar date and hour; a value that is neither a number nor date text  *)
(* becomes NaT and its row is dropped without an error.                    *)

SerialInNanoRange(f) == f.t = "float" /\ f.v >= MinNanoHour /\ f.v <= MaxNanoHour
IsDateText(x) == x.t = "str" /\ ParseDateText(Strip(x.s)) # NaT

\* C9 (amended): a numeric time value s inside the timestamp range becomes
\* 1899-12-30 + s days, date and hour bucket follow from it, and a value
\* that is neither a number nor date text is dropped without an error.
C9_SerialInRangeNormalised ==
    /\ pc = "dropna" =>
          \A i \in 1..Len(df) :
              LET f == FloatOf(df[i].Time)
              IN  /\ SerialInNanoRange(f) => df[i].StdTime = Ts(f.v)
                  /\ (f.t # "float" /\ ~IsDateText(df[i].Time)) => df[i].StdTime = NaT
    /\ pc \in {"dropna", "derive", "filter"} => outcome = "running"
    /\ (pc = "derive" \/ Sanitized) =>
          /\ \A i \in 1..Len(df) : df[i].StdTime.t = "ts"
          /\ \A k \in 1..Len(df_raw) :
                (FloatOf(df_raw[k].Time).t # "float" /\ ~IsDateText(df_raw[k].Time)) =>
                    \A i \in 1..Len(df) : df[i].idx # k - 1
    /\ Sanitized =>
          \A i \in 1..Len(df) :
              LET f == FloatOf(df[i].Time)
              IN  SerialInNanoRange(f) =>
                     /\ df[i].Date = f.v \div 24
                     /\ df[i].Hour = NatDigits(f.v % 24) \o <<COLON, ZERO, ZERO>>
                     /\ (f.v = 46023 * 24 + 6 =>
                            /\ CivilFromDays(df[i].Date) = <<2026, 1, 1>>
                            /\ df[i].Hour = Lbl6)

C9_Witness ==
    /\ pc = "bounds"
    /\ Len(df_raw) = 2
    /\ df_raw[1].Time = Str(TxtABC)
    /\ df_raw[2].Time = Num(46023 * 24 + 6)
    /\ Len(df) = 1
    /\ df[1].idx = 1
    /\ df[1].Hour = Lbl6

-----------------------------------------------------------------------------
(* C10: for selections that are legal choices in both modes, the two modes *)
(* produce the same filtered rows.                                         *)

LegalInTimeFirst ==
    /\ sel_hours # {} /\ sel_names # {}
    /\ sel_hours \subseteq Range(AvailableHours(df_period))
    /\ sel_names \subseteq LegalPerformers(sel_hours)

LegalInPerformerFirst ==
    /\ sel_hours # {} /\ sel_names # {}
    /\ sel_names \subseteq Range(AvailableStreamers(df_period))
    /\ Step1PerformerFirst(df_period, sel_names) # <<>>
    /\ sel_hours \subseteq LegalHours(sel_names)

\* C10: on selections legal in both modes, the mode that ran and the other
\* mode compute the same final_df.
C10_ModesAgree ==
    Filtered =>
        /\ (filter_mode = TimeFirst /\ LegalInPerformerFirst) =>
              final_df = FinalPerformerFirst(Step1PerformerFirst(df_period, sel_names),
                                             sel_hours)
        /\ (filter_mode = PerformerFirst /\ LegalInTimeFirst) =>
              final_df = FinalTimeFirst(Step1TimeFirst(df_period, sel_hours), sel_names)

C10_Witness ==
    /\ pc = "show"
    /\ filter_mode = TimeFirst
    /\ LegalInPerformerFirst
    /\ Len(final_df) = 1
    /\ Len(df_period) = 2
    /\ Len(available_hours) = 2
    /\ Len(available_streamers) = 1

====
